---- MODULE Spec2Model ----
(***************************************************************************)
(* Media timeline processing engine of Backend/services/video_processing.py *)
(* Each processing call is modelled as a call frame (a record of the       *)
(* function's arguments and locals plus its position pc); one variable     *)
(* per function.  Times are integers: one time unit is half a detection    *)
(* window (0.05s), so that a trace may end inside its last window.         *)
(***************************************************************************)
EXTENDS Integers, Sequences, FiniteSets, TLC

VARIABLES rs,   \* call frame of remove_silence
          cv,   \* call frame of cut_video_with_profile
          mt,   \* call frame of create_satisfy_montage
          rf,   \* call frame of render_final_video
          gs,   \* call frame of generate_subtitles and its helpers
          srv   \* the server: upload and output files, requests in flight

vars == <<rs, cv, mt, rf, gs, srv>>

\* ---------------------------------------------------------------- bounds
MaxWindows == 4      \* longest amplitude trace, in windows
MaxMinDur == 5       \* largest min_silence_duration, in time units
MaxTime == 2         \* largest time of a cut profile / source duration
MaxSegs == 2         \* longest cut profile
MaxClips == 2        \* most clips of a montage besides the intro
MaxCrossfade == 5    \* largest crossfade_duration
MaxTarget == 20      \* largest target_duration
MaxRenderClips == 2  \* most clip_paths of a render
MaxEntries == 2      \* longest arrangement sequence

\* ------------------------------------------------------ program constants
Window == 2          \* time units per 0.1s detection window
None == -1000       \* Python's None (a value no time can take)

\* A call frame that is not in use under the specification at hand.
Idle == [pc |-> "idle"]

\* ------------------------------------------ the media-codec collaborator
\* The errors a call can end with.  EmptyTimelineError is the ValueError
\* the engine raises itself; CollaboratorError is an exception raised
\* inside the media library and propagated unchanged; UnhandledError is an
\* exception of the language raised by the engine's own statements;
\* ConfigurationError is the rejection of bad parameters.
NoError == "none"
EmptyTimelineError == "EmptyTimelineError"
CollaboratorError == "CollaboratorError"
UnhandledError == "UnhandledError"   \* IndexError, OverflowError, ...
ConfigurationError == "ConfigurationError"

\* Clip.subclip(t_start, t_end) of a clip of duration d: a negative time
\* counts from the end of the clip, a start beyond the end raises, and the
\* new clip's duration is t_end - t_start.
Subclip(d, t_start, t_end) ==
  LET ts == IF t_start < 0 THEN d + t_start ELSE t_start
      te == IF t_end = None THEN d
            ELSE IF t_end < 0 THEN d + t_end ELSE t_end
  IN IF ts > d THEN [ok |-> FALSE, start |-> ts, end |-> ts]
     ELSE [ok |-> TRUE, start |-> ts, end |-> te]

\* ======================================================= remove_silence
Levels == {-41, -40, -39}        \* window amplitudes, in dB
Thresholds == {-40}              \* silence_threshold (default -40)

Traces == UNION {[1..n -> Levels] : n \in 0..MaxWindows}

\* audio.duration of a trace of n windows: the last window may be partial.
Durations(n) == IF n = 0 THEN {0} ELSE {Window * n - 1, Window * n}

InitRS ==
  \E tr \in Traces, th \in Thresholds, md \in 0..MaxMinDur, v \in BOOLEAN :
    \E d \in Durations(Len(tr)) :
      rs = [pc |-> "scan", trace |-> tr, silence_threshold |-> th,
            min_silence_duration |-> md, duration |-> d, is_video |-> v,
            i |-> 1, is_silent |-> TRUE, segment_start |-> 0,
            non_silent_segments |-> <<>>,
            open |-> IF v THEN {"video", "audio"} ELSE {"audio"},
            error |-> NoError, output |-> <<>>, written |-> FALSE]

\* A falling edge that emits the span from the start of the trace.
FallingEdgeFromZero(segs, segment_start, current_time, min_dur) ==
  IF current_time >= min_dur THEN Append(segs, <<0, current_time>>) ELSE segs

\* A falling edge that keeps a span only when it is longer than min_dur.
FallingEdgeStrict(segs, segment_start, current_time, min_dur) ==
  IF current_time - segment_start > min_dur
    THEN Append(segs, <<segment_start, current_time>>)
    ELSE segs

\* The segments the loop body appends at a falling edge at current_time.
FallingEdgeSegments(segs, segment_start, current_time, min_dur) ==
  IF current_time - segment_start >= min_dur
    THEN Append(segs, <<segment_start, current_time>>)
    ELSE segs

\* A comparison that takes an amplitude equal to the threshold as loud.
IsQuietBelow(amp, threshold) == amp < threshold

\* The two comparisons of a window's amplitude with silence_threshold.
IsLoudAtOrAbove(amp, threshold) == amp >= threshold

IsLoud(amp, threshold) == amp > threshold

IsQuiet(amp, threshold) == amp <= threshold

\* One iteration of the scan loop: the window starting at current_time.
ScanWindow ==
  /\ rs.pc = "scan"
  /\ rs.i <= Len(rs.trace)
  /\ LET chunk_amplitude == rs.trace[rs.i]
         current_time == (rs.i - 1) * Window
     IN rs' =
          IF rs.is_silent /\ IsLoud(chunk_amplitude, rs.silence_threshold)
            THEN [rs EXCEPT !.segment_start = current_time,
                            !.is_silent = FALSE, !.i = @ + 1]
          ELSE IF ~rs.is_silent
                  /\ IsQuiet(chunk_amplitude, rs.silence_threshold)
            THEN [rs EXCEPT !.non_silent_segments =
                              FallingEdgeSegments(@, rs.segment_start,
                                current_time, rs.min_silence_duration),
                            !.is_silent = TRUE, !.i = @ + 1]
          ELSE [rs EXCEPT !.i = @ + 1]
  /\ UNCHANGED <<cv, mt, rf, gs, srv>>

\* A last span that is appended whatever the state of the detector.
LastSegmentAlways(segs, is_silent, segment_start, duration) ==
  Append(segs, <<segment_start, duration>>)

\* The segments after the loop: the last span is kept when still non-silent.
LastSegmentForgotten(segs, is_silent, segment_start, duration) == segs

LastSegment(segs, is_silent, segment_start, duration) ==
  IF ~is_silent THEN Append(segs, <<segment_start, duration>>) ELSE segs

EndOfTrace ==
  /\ rs.pc = "scan"
  /\ rs.i > Len(rs.trace)
  /\ rs' = [rs EXCEPT !.non_silent_segments =
                        LastSegment(@, rs.is_silent, rs.segment_start,
                                    rs.duration),
                      !.pc = "build"]
  /\ UNCHANGED <<cv, mt, rf, gs, srv>>

\* concatenate_videoclips raises on an empty list (max() of no sizes) and
\* on audio clips (an audio clip has no size attribute).
ConcatSilenceOk(segs, is_video) == is_video /\ Len(segs) > 0

\* Subclip each kept span, concatenate, write the output file.
WriteNoSilence ==
  /\ rs.pc = "build"
  /\ LET segs == rs.non_silent_segments
         clips == [k \in 1..Len(segs) |->
                     Subclip(rs.duration, segs[k][1], segs[k][2])]
     IN IF \E k \in 1..Len(segs) : ~clips[k].ok
          THEN rs' = [rs EXCEPT !.pc = "failed", !.error = CollaboratorError]
        ELSE IF ~ConcatSilenceOk(segs, rs.is_video)
          THEN rs' = [rs EXCEPT !.pc = "failed", !.error = CollaboratorError]
        ELSE rs' = [rs EXCEPT !.pc = "done", !.written = TRUE,
                       !.open = {},
                       !.output = [k \in 1..Len(segs) |->
                                     <<clips[k].start, clips[k].end>>]]
  /\ UNCHANGED <<cv, mt, rf, gs, srv>>

\* The collaborator fails while the output is materialized.
WriteNoSilenceFails ==
  /\ rs.pc = "build"
  /\ rs' = [rs EXCEPT !.pc = "failed", !.error = CollaboratorError]
  /\ UNCHANGED <<cv, mt, rf, gs, srv>>

NextRS == ScanWindow \/ EndOfTrace \/ WriteNoSilence \/ WriteNoSilenceFails

InitSilence ==
  InitRS /\ cv = Idle /\ mt = Idle /\ rf = Idle /\ gs = Idle /\ srv = Idle

SpecSilence == InitSilence /\ [][NextRS]_vars

\* ------------------------------------------------ claims: remove_silence
AllLoud == \A k \in 1..Len(rs.trace) : rs.trace[k] > rs.silence_threshold
AllQuiet == \A k \in 1..Len(rs.trace) : rs.trace[k] <= rs.silence_threshold
Scanned == rs.pc \in {"build", "done", "failed"}

\* C1 as stated: a trace (of at least one window) entirely above the
\* threshold, of duration D, yields exactly the segment [0, D] when
\* D >= min_silence_duration and no segment otherwise.
C1_AsStated ==
  (Scanned /\ AllLoud /\ Len(rs.trace) > 0) =>
     rs.non_silent_segments =
       IF rs.duration >= rs.min_silence_duration
         THEN << <<0, rs.duration>> >> ELSE <<>>

\* C1 amended: a non-empty trace entirely above the threshold, of duration
\* D, yields exactly the one segment [0, D] whatever min_silence_duration
\* is; the empty trace yields no segment.
C1_AllLoudOneSegment ==
  (Scanned /\ AllLoud) =>
     rs.non_silent_segments =
       IF Len(rs.trace) > 0 THEN << <<0, rs.duration>> >> ELSE <<>>

\* An all-loud trace shorter than min_silence_duration that is kept whole.
C1_Witness ==
  /\ Scanned /\ AllLoud /\ Len(rs.trace) > 1
  /\ rs.duration < rs.min_silence_duration
  /\ rs.non_silent_segments = << <<0, rs.duration>> >>

\* C2: a trace whose every window is at or below the threshold (the empty
\* trace included) yields no non-silent segment, for every
\* min_silence_duration.
C2_AllQuietEmpty == AllQuiet => rs.non_silent_segments = <<>>

\* A scanned trace with a window exactly at the threshold and no minimum.
C2_Witness ==
  /\ Scanned /\ AllQuiet /\ Len(rs.trace) > 1
  /\ \E k \in 1..Len(rs.trace) : rs.trace[k] = rs.silence_threshold
  /\ rs.min_silence_duration = 0

\* C8 as stated: when detection yields no segment the call ends in the
\* explicit empty-result failure and writes no output file.
C8_AsStated ==
  (rs.pc \in {"done", "failed"} /\ rs.non_silent_segments = <<>>) =>
     (rs.pc = "failed" /\ rs.error = EmptyTimelineError /\ ~rs.written)

\* The detector is NonSilent and the window it is about to read is at
\* or below the threshold: the next step is a falling edge at window_time.
AtFallingEdge ==
  /\ rs.pc = "scan" /\ rs.i <= Len(rs.trace)
  /\ ~rs.is_silent
  /\ rs.trace[rs.i] <= rs.silence_threshold

window_time == (rs.i - 1) * Window

\* No emitted segment reaches over a window at or below the threshold.
NoQuietWindowInside ==
  \A n \in 1..Len(rs.non_silent_segments) :
    \A k \in 1..Len(rs.trace) :
      LET seg == rs.non_silent_segments[n]
      IN (seg[1] <= (k - 1) * Window /\ (k - 1) * Window < seg[2])
           => rs.trace[k] > rs.silence_threshold

EndsNonSilent ==
  Len(rs.trace) > 0 /\ rs.trace[Len(rs.trace)] > rs.silence_threshold

FinalRunStart ==
  LET first == CHOOSE k \in 1..Len(rs.trace) :
                 /\ \A j \in k..Len(rs.trace) :
                      rs.trace[j] > rs.silence_threshold
                 /\ (k = 1 \/ rs.trace[k - 1] <= rs.silence_threshold)
  IN (first - 1) * Window

\* C21: when the trace ends while the detector is NonSilent, the last
\* element of the result is the segment from segment_start (the start of
\* the final loud run) to the total duration; when it ends while Silent,
\* no segment reaching the end of the trace is emitted.
C21_EndOfTrace ==
  Scanned =>
    IF EndsNonSilent
      THEN /\ ~rs.is_silent
           /\ rs.non_silent_segments # <<>>
           /\ rs.non_silent_segments[Len(rs.non_silent_segments)] =
                <<FinalRunStart, rs.duration>>
      ELSE /\ rs.is_silent
           /\ \A n \in 1..Len(rs.non_silent_segments) :
                rs.non_silent_segments[n][2] < rs.duration

\* The scan is over, an earlier span was emitted at its falling edge and
\* the trace ended NonSilent.
C21_Witness ==
  /\ Scanned /\ EndsNonSilent
  /\ Len(rs.non_silent_segments) = 2
  /\ rs.non_silent_segments[2][2] = rs.duration

\* C22: the emitted segments are in order and do not overlap, and each
\* has 0 <= start < end <= total duration.
C22_OrderedSegments ==
  rs.pc # "idle" =>
    /\ \A n \in 1..Len(rs.non_silent_segments) :
         LET seg == rs.non_silent_segments[n]
         IN 0 <= seg[1] /\ seg[1] < seg[2] /\ seg[2] <= rs.duration
    /\ \A n \in 1..(Len(rs.non_silent_segments) - 1) :
         rs.non_silent_segments[n][2] <= rs.non_silent_segments[n + 1][1]

\* Two segments have been emitted and the output has been written.
C22_Witness ==
  /\ rs.pc = "done"
  /\ Len(rs.non_silent_segments) = 2
  /\ rs.non_silent_segments[1][2] < rs.non_silent_segments[2][1]

\* C23: the detector starts Silent; after each window it is NonSilent
\* exactly when that window is strictly above the threshold; and
\* segment_start changes only on a step from Silent to NonSilent, which
\* sets it to the start time of the window read.
C23_DetectorState ==
  /\ [](rs.pc # "idle" =>
          IF rs.i = 1 THEN rs.is_silent /\ rs.segment_start = 0
          ELSE ~rs.is_silent <=> rs.trace[rs.i - 1] > rs.silence_threshold)
  /\ [][(rs.pc = "scan" /\ rs'.pc = "scan" /\ rs'.i = rs.i + 1) =>
          IF rs.is_silent /\ ~rs'.is_silent
            THEN rs'.segment_start = window_time
            ELSE rs'.segment_start = rs.segment_start]_vars
  /\ [][rs.pc # "scan" => rs'.segment_start = rs.segment_start]_vars

\* A window equal to the threshold has just ended a NonSilent run that
\* began after the start of the trace.
C23_Witness ==
  /\ rs.pc = "scan" /\ rs.i = 4
  /\ rs.trace[1] <= rs.silence_threshold
  /\ rs.trace[2] > rs.silence_threshold
  /\ rs.trace[3] = rs.silence_threshold
  /\ rs.is_silent /\ rs.segment_start = Window

\* ================================================ cut_video_with_profile
\* A profile segment: segment.get("start_time"), segment.get("end_time").
Times == {None} \cup (-1..MaxTime)
ProfileSegments == [start_time : Times, end_time : Times]
Profiles == UNION {[1..n -> ProfileSegments] : n \in 0..MaxSegs}

InitCV ==
  \E d \in 1..MaxTime, p \in Profiles :
    cv = [pc |-> "loop", duration |-> d, profile |-> p, k |-> 1,
          segments |-> <<>>, open |-> {"video"},
          error |-> NoError, output |-> <<>>, written |-> FALSE]

\* The test that decides whether a profile segment is cut out of the video.
HasBothTimes(segment) ==
  segment.start_time # None /\ segment.end_time # None

\* One iteration of the loop over cut_profile["segments"].
CutSegment ==
  /\ cv.pc = "loop"
  /\ cv.k <= Len(cv.profile)
  /\ LET segment == cv.profile[cv.k]
         clip == Subclip(cv.duration, segment.start_time, segment.end_time)
     IN cv' =
          IF ~HasBothTimes(segment) THEN [cv EXCEPT !.k = @ + 1]
          ELSE IF ~clip.ok
            THEN [cv EXCEPT !.pc = "failed", !.error = CollaboratorError]
          ELSE [cv EXCEPT !.k = @ + 1,
                          !.segments = Append(@, <<clip.start, clip.end>>)]
  /\ UNCHANGED <<rs, mt, rf, gs, srv>>

\* After the loop: concatenate and write, or raise when nothing was kept.
CutWrite ==
  /\ cv.pc = "loop"
  /\ cv.k > Len(cv.profile)
  /\ cv' = IF cv.segments # <<>>
             THEN [cv EXCEPT !.pc = "done", !.written = TRUE,
                             !.output = cv.segments, !.open = {}]
             ELSE [cv EXCEPT !.pc = "failed", !.error = EmptyTimelineError]
  /\ UNCHANGED <<rs, mt, rf, gs, srv>>

\* The collaborator fails while the output is concatenated or written.
CutWriteFails ==
  /\ cv.pc = "loop"
  /\ cv.k > Len(cv.profile)
  /\ cv.segments # <<>>
  /\ cv' = [cv EXCEPT !.pc = "failed", !.error = CollaboratorError]
  /\ UNCHANGED <<rs, mt, rf, gs, srv>>

NextCV == CutSegment \/ CutWrite \/ CutWriteFails

InitCut ==
  InitCV /\ rs = Idle /\ mt = Idle /\ rf = Idle /\ gs = Idle /\ srv = Idle

SpecCut == InitCut /\ [][NextCV]_vars

\* --------------------------------------- claims: cut_video_with_profile
\* The validation the specification asks of a profile segment.
ValidSegment(segment, d) ==
  /\ HasBothTimes(segment)
  /\ 0 <= segment.start_time
  /\ segment.start_time < segment.end_time
  /\ segment.end_time <= d

RECURSIVE ValidSegments(_, _)
ValidSegments(p, d) ==
  IF p = <<>> THEN <<>>
  ELSE IF ValidSegment(Head(p), d)
    THEN << <<Head(p).start_time, Head(p).end_time>> >>
           \o ValidSegments(Tail(p), d)
    ELSE ValidSegments(Tail(p), d)

\* C5 as stated: the output timeline is the profile filtered to the
\* segments with 0 <= start_time < end_time <= source_duration, in the
\* order given (an invalid segment is dropped).
C5_AsStated ==
  cv.pc = "done" => cv.output = ValidSegments(cv.profile, cv.duration)

\* C6 as stated: with no segment, or only invalid segments, the call fails
\* with the empty-timeline error and writes no output file.
C6_AsStated ==
  ValidSegments(cv.profile, cv.duration) = <<>> =>
    /\ cv.pc # "done" /\ ~cv.written
    /\ (cv.pc = "failed" /\ cv.k > Len(cv.profile))
         => cv.error = EmptyTimelineError

\* C11 as stated: when a call has returned or raised, every source clip it
\* opened has been closed, whichever way the call ended.
C11_AsStated ==
  /\ cv.pc \in {"done", "failed"} => cv.open = {}
  /\ rs.pc \in {"done", "failed"} => rs.open = {}
  /\ mt.pc \in {"done", "failed"} => mt.open = {}
  /\ rf.pc \in {"done", "failed"} => rf.open = {}

\* ================================================ create_satisfy_montage
IntroDurations == {2, 6}
RawDurations == {5, 10}          \* durations of the clips as loaded
ClipLists == UNION {[1..n -> RawDurations] : n \in 0..MaxClips}

\* A pixel <<r, g, b>> of the frames of the sources: a grey, a pure red
\* and a mixed colour.
Pixels == {<<100, 100, 100>>, <<255, 0, 0>>, <<200, 100, 50>>}

InitMT ==
  \E intro \in IntroDurations, cl \in ClipLists, px \in Pixels,
     t \in -1..MaxTarget, cf \in 0..MaxCrossfade :
    mt = [pc |-> "intro", intro_duration |-> intro, clip_paths |-> cl,
          frame |-> px,
          target_duration |-> t, crossfade_duration |-> cf,
          j |-> 1, clips |-> <<>>, open |-> {},
          current_duration |-> 0, repetitions |-> 0, trimmed |-> FALSE,
          final_duration |-> 0,
          error |-> NoError, written |-> FALSE]

\* intro_clip = VideoFileClip(intro_path); clips = [intro_clip]
LoadIntro ==
  /\ mt.pc = "intro"
  /\ mt' = [mt EXCEPT !.pc = "load", !.open = {0},
               !.clips = << [src |-> 0, duration |-> mt.intro_duration,
                             image |-> mt.frame, effects |-> <<>>] >>]
  /\ UNCHANGED <<rs, cv, rf, gs, srv>>

\* clip.speedx(1.25): the duration is divided by 1.25.
SpeedX(d) == (d * 4) \div 5

\* boost_colors: the image, an array of r, g, b values, is scaled to 0..1,
\* its channel of index 1 is multiplied by 1.5, and the result is scaled
\* back, clipped to 0..255 and truncated.
boost_colors(image) ==
  <<image[1],
    IF (image[2] * 3) \div 2 > 255 THEN 255 ELSE (image[2] * 3) \div 2,
    image[3]>>

\* The effects every non-intro clip gets, in order:
\* clip.fl_image(boost_colors), then clip.speedx(1.25).
ApplyEffects(clip) ==
  [clip EXCEPT !.effects = @ \o <<"boost_colors", "speedx">>,
               !.image = boost_colors(@),
               !.duration = SpeedX(@)]

\* One iteration of the loop over clip_paths.
LoadClip ==
  /\ mt.pc = "load"
  /\ mt.j <= Len(mt.clip_paths)
  /\ LET clip == [src |-> mt.j, duration |-> mt.clip_paths[mt.j],
                  image |-> mt.frame, effects |-> <<>>]
     IN mt' = [mt EXCEPT !.j = @ + 1, !.open = @ \cup {mt.j},
                         !.clips = Append(@, ApplyEffects(clip))]
  /\ UNCHANGED <<rs, cv, rf, gs, srv>>

RECURSIVE SumSeq(_)
SumSeq(q) == IF q = <<>> THEN 0 ELSE Head(q) + SumSeq(Tail(q))

Max(a, b) == IF a >= b THEN a ELSE b

\* Duration of concatenate_videoclips(clips, method="compose",
\* padding=-crossfade): clip k starts at the sum of the earlier durations
\* minus k-1 crossfades, and the result ends at the last entry of that
\* table of start times, max(0, sum of all durations - n crossfades).
ConcatCompose(durations, crossfade) ==
  Max(0, SumSeq(durations) - Len(durations) * crossfade)

ConcatenateClips ==
  /\ mt.pc = "load"
  /\ mt.j > Len(mt.clip_paths)
  /\ LET d == ConcatCompose([k \in 1..Len(mt.clips) |-> mt.clips[k].duration],
                            mt.crossfade_duration)
     IN mt' = [mt EXCEPT !.pc = "check", !.current_duration = d,
                         !.final_duration = d]
  /\ UNCHANGED <<rs, cv, rf, gs, srv>>

\* if current_duration < target_duration
NeedsExtensionAtOrBelow(current, target) == current <= target

NeedsExtension(current, target) == current < target

\* int(np.ceil(target / current)) for current > 0
Repetitions(target, current) == (target + current - 1) \div current

\* final_clip.subclip(0, target_duration) after the repetition.
TrimSkipped(extended, target) == [ok |-> TRUE, start |-> 0, end |-> extended]

TrimToTarget(extended, target) == Subclip(extended, 0, target)

\* The montage is shorter than the target: loop it and trim.  A
\* current_duration of 0 makes the repetition count infinite, and its
\* conversion to an integer raises.
ExtendMontage ==
  /\ mt.pc = "check"
  /\ NeedsExtension(mt.current_duration, mt.target_duration)
  /\ IF mt.current_duration = 0
       THEN mt' = [mt EXCEPT !.pc = "failed", !.error = UnhandledError]
       ELSE LET reps == Repetitions(mt.target_duration, mt.current_duration)
                extended == ConcatCompose(
                              [k \in 1..reps |-> mt.current_duration],
                              mt.crossfade_duration)
                cut == TrimToTarget(extended, mt.target_duration)
            IN IF ~cut.ok
                 THEN mt' = [mt EXCEPT !.pc = "failed",
                                       !.error = CollaboratorError]
                 ELSE mt' = [mt EXCEPT !.pc = "write", !.repetitions = reps,
                                       !.trimmed = TRUE,
                                       !.final_duration = cut.end - cut.start]
  /\ UNCHANGED <<rs, cv, rf, gs, srv>>

\* The montage is long enough: it is written as it is.
KeepMontage ==
  /\ mt.pc = "check"
  /\ ~NeedsExtension(mt.current_duration, mt.target_duration)
  /\ mt' = [mt EXCEPT !.pc = "write"]
  /\ UNCHANGED <<rs, cv, rf, gs, srv>>

\* write_videofile, then every clip of the list is closed.
WriteMontage ==
  /\ mt.pc = "write"
  /\ mt' = [mt EXCEPT !.pc = "done", !.written = TRUE, !.open = {}]
  /\ UNCHANGED <<rs, cv, rf, gs, srv>>

\* The collaborator fails while the montage is written.
WriteMontageFails ==
  /\ mt.pc = "write"
  /\ mt' = [mt EXCEPT !.pc = "failed", !.error = CollaboratorError]
  /\ UNCHANGED <<rs, cv, rf, gs, srv>>

NextMT ==
  \/ LoadIntro \/ LoadClip \/ ConcatenateClips \/ ExtendMontage
  \/ KeepMontage \/ WriteMontage \/ WriteMontageFails

InitMontage ==
  InitMT /\ rs = Idle /\ cv = Idle /\ rf = Idle /\ gs = Idle /\ srv = Idle

SpecMontage == InitMontage /\ [][NextMT]_vars

\* --------------------------------------- claims: create_satisfy_montage
\* The extension decision has been taken.
Decided == mt.pc \in {"write", "done", "failed"}

C4_NoExtension ==
  (Decided /\ mt.current_duration >= mt.target_duration) =>
     /\ mt.repetitions = 0 /\ ~mt.trimmed
     /\ mt.final_duration = mt.current_duration

\* A written montage of three clips longer than a positive target.
C4_Witness ==
  /\ mt.pc = "done" /\ mt.target_duration > 0 /\ Len(mt.clips) = 3
  /\ mt.current_duration > mt.target_duration
  /\ mt.final_duration = mt.current_duration

\* C9 as stated: with target_duration <= 0 the call fails with a
\* configuration error before any clip is opened or written.
C9_AsStated ==
  mt.target_duration <= 0 =>
    /\ mt.open = {} /\ mt.clips = <<>> /\ ~mt.written
    /\ mt.pc \in {"intro", "failed"}
    /\ mt.pc = "failed" => mt.error = ConfigurationError

\* The durations of the clips joined: the intro and the processed clips.
JoinedDurations ==
  <<mt.intro_duration>>
    \o [k \in 1..Len(mt.clip_paths) |-> SpeedX(mt.clip_paths[k])]

\* The crossfade is not shorter than some clip next to a join.
CrossfadeTooLong ==
  /\ Len(JoinedDurations) >= 2
  /\ \E k \in 1..Len(JoinedDurations) :
       mt.crossfade_duration >= JoinedDurations[k]

\* C10 as stated: a crossfade_duration that is not strictly smaller than
\* the duration of every clip next to a join is a fatal configuration
\* error, and no output is produced (stated here for calls with a positive
\* target_duration: no output is produced).
C10_AsStated ==
  (CrossfadeTooLong /\ mt.target_duration > 0) =>
     (mt.pc # "done" /\ ~mt.written)

\* What a saturation boost leaves alone: the largest channel of a pixel
\* (its value) and a pixel without colour (saturation 0).
Value(image) ==
  CHOOSE v \in {image[1], image[2], image[3]} :
    \A c \in 1..3 : image[c] <= v

Grey(image) == image[1] = image[2] /\ image[2] = image[3]

KeepsValueAndGreys(before, after) ==
  /\ Value(after) = Value(before)
  /\ Grey(before) => after = before

ClipsLoaded == mt.pc \notin {"idle", "intro", "load"}

\* C26 as stated: the intro is the first clip of the montage and is not
\* transformed; every other clip, in the order of clip_paths, gets the
\* saturation boost and then the speed change, once each, its duration
\* divided by 1.25.
C26_AsStated ==
  ClipsLoaded =>
    /\ Len(mt.clips) = Len(mt.clip_paths) + 1
    /\ mt.clips[1] = [src |-> 0, duration |-> mt.intro_duration,
                      image |-> mt.frame, effects |-> <<>>]
    /\ \A k \in 2..Len(mt.clips) :
         /\ mt.clips[k].src = k - 1
         /\ mt.clips[k].effects = <<"boost_colors", "speedx">>
         /\ 5 * mt.clips[k].duration = 4 * mt.clip_paths[k - 1]
         /\ KeepsValueAndGreys(mt.frame, mt.clips[k].image)

\* ==================================================== render_final_video
\* Clip handles: the intro, the outro and the clips by position.
Intro == [kind |-> "intro", n |-> 0]
Outro == [kind |-> "outro", n |-> 0]
ClipAt(n) == [kind |-> "clip", n |-> n]

\* Durations of the sources (the claims do not depend on their values).
SourceDuration(h) == IF h.kind = "clip" THEN 3 ELSE 1

\* An arrangement entry: clip_index, start_time (default 0), end_time.
\* has_arrangement says that a (non-empty) arrangement record was passed;
\* sequence is its "sequence" list, empty when the key is missing.
ClipIndexes == {-1, 0, 1, 2, 5}
EntryRanges == { <<0, None>>, <<1, None>>, <<0, 0>>, <<0, 2>>, <<1, 2>> }
Entries == { [clip_index |-> c, start_time |-> r[1], end_time |-> r[2]] :
               c \in ClipIndexes, r \in EntryRanges }
ArrangementSequences == UNION {[1..n -> Entries] : n \in 0..MaxEntries}

InitRF ==
  \E n \in 0..MaxRenderClips, intro \in BOOLEAN, outro \in BOOLEAN,
     arr \in BOOLEAN, sq \in ArrangementSequences :
    /\ ~arr => sq = <<>>
    /\ rf = [pc |-> "open", n_clips |-> n, has_intro |-> intro,
             has_outro |-> outro, has_arrangement |-> arr, sequence |-> sq,
             k |-> 1, clips |-> <<>>, arranged_clips |-> <<>>,
             open |-> {}, log |-> <<>>,
             error |-> NoError, output |-> <<>>, written |-> FALSE]

\* The whole of a source as a timeline element.
Whole(h) == [src |-> h, start |-> 0, end |-> SourceDuration(h)]

\* clips.append(intro_clip) in place of clips.insert(0, intro_clip).
BaseListIntroAppended(n, has_intro, has_outro) ==
  [k \in 1..n |-> Whole(ClipAt(k))]
    \o (IF has_intro THEN <<Whole(Intro)>> ELSE <<>>)
    \o (IF has_outro THEN <<Whole(Outro)>> ELSE <<>>)

\* clips = [VideoFileClip(p) for p in clip_paths], the intro inserted at
\* the front and the outro appended when given.
BaseList(n, has_intro, has_outro) ==
  (IF has_intro THEN <<Whole(Intro)>> ELSE <<>>)
    \o [k \in 1..n |-> Whole(ClipAt(k))]
    \o (IF has_outro THEN <<Whole(Outro)>> ELSE <<>>)

\* The materialized result, as it appears in the log of collaborator calls.
Final == [kind |-> "final", n |-> 0]

\* Naming the output after clip_paths[0] raises on an empty clip_paths;
\* otherwise every source is opened.
OpenSources ==
  /\ rf.pc = "open"
  /\ IF rf.n_clips = 0
       THEN rf' = [rf EXCEPT !.pc = "failed", !.error = UnhandledError]
       ELSE LET base == BaseList(rf.n_clips, rf.has_intro, rf.has_outro)
            IN rf' = [rf EXCEPT
                 !.clips = base,
                 !.open = {base[k].src : k \in 1..Len(base)},
                 !.log = [k \in 1..Len(base) |-> <<"open", base[k].src>>],
                 !.pc = IF rf.has_arrangement THEN "arrange" ELSE "concat"]
  /\ UNCHANGED <<rs, cv, mt, gs, srv>>

\* if 0 <= clip_index < len(clips)
ValidIndex(clip_index, n) == 0 <= clip_index /\ clip_index < n

\* if end_time: subclip(start_time, end_time) else subclip(start_time)
EntryClip(clip, item) ==
  IF item.end_time # None /\ item.end_time # 0
    THEN Subclip(clip.end - clip.start, item.start_time, item.end_time)
    ELSE Subclip(clip.end - clip.start, item.start_time, None)

\* One iteration of the loop over arrangement["sequence"].
ArrangeEntry ==
  /\ rf.pc = "arrange"
  /\ rf.k <= Len(rf.sequence)
  /\ LET item == rf.sequence[rf.k]
     IN IF ~ValidIndex(item.clip_index, Len(rf.clips))
          THEN rf' = [rf EXCEPT !.k = @ + 1]
          ELSE LET clip == rf.clips[item.clip_index + 1]
                   sub == EntryClip(clip, item)
               IN IF ~sub.ok
                    THEN rf' = [rf EXCEPT !.pc = "failed",
                                          !.error = CollaboratorError]
                    ELSE rf' = [rf EXCEPT !.k = @ + 1,
                           !.arranged_clips =
                              Append(@, [src |-> clip.src,
                                         start |-> sub.start,
                                         end |-> sub.end])]
  /\ UNCHANGED <<rs, cv, mt, gs, srv>>

\* Closing every clip of a list, in order.
CloseAll(log, clips) ==
  log \o [k \in 1..Len(clips) |-> <<"close", clips[k].src>>]

\* clips.extend(arranged_clips) in place of clips = arranged_clips.
ExtendClips(clips, arranged_clips) == clips \o arranged_clips

\* clips = arranged_clips
ReplaceClips(clips, arranged_clips) == arranged_clips

\* After the loop: a non-empty arranged list replaces the base list, whose
\* clips are closed; an empty one leaves the base list in place.
ArrangeDone ==
  /\ rf.pc = "arrange"
  /\ rf.k > Len(rf.sequence)
  /\ rf' = IF rf.arranged_clips # <<>>
             THEN [rf EXCEPT !.pc = "concat", !.open = {},
                             !.log = CloseAll(@, rf.clips),
                             !.clips = ReplaceClips(rf.clips,
                                                    rf.arranged_clips)]
             ELSE [rf EXCEPT !.pc = "concat"]
  /\ UNCHANGED <<rs, cv, mt, gs, srv>>

\* concatenate_videoclips(clips) with hard cuts, write, close the clips.
RenderWrite ==
  /\ rf.pc = "concat"
  /\ rf' = [rf EXCEPT !.pc = "done", !.written = TRUE, !.output = rf.clips,
                      !.open = {},
                      !.log = CloseAll(Append(@, <<"write", Final>>),
                                       rf.clips)]
  /\ UNCHANGED <<rs, cv, mt, gs, srv>>

\* The collaborator fails while the video is concatenated or written.
RenderWriteFails ==
  /\ rf.pc = "concat"
  /\ rf' = [rf EXCEPT !.pc = "failed", !.error = CollaboratorError]
  /\ UNCHANGED <<rs, cv, mt, gs, srv>>

NextRF ==
  \/ OpenSources \/ ArrangeEntry \/ ArrangeDone
  \/ RenderWrite \/ RenderWriteFails

InitRender ==
  InitRF /\ rs = Idle /\ cv = Idle /\ mt = Idle /\ gs = Idle /\ srv = Idle

SpecRender == InitRender /\ [][NextRF]_vars

\* ------------------------------------------- claims: render_final_video
BaseLength ==
  rf.n_clips + (IF rf.has_intro THEN 1 ELSE 0)
             + (IF rf.has_outro THEN 1 ELSE 0)

\* A provided arrangement sequence every entry of which is skipped.
AllEntriesSkipped ==
  /\ rf.has_arrangement /\ rf.sequence # <<>> /\ rf.n_clips > 0
  /\ \A k \in 1..Len(rf.sequence) :
       ~(0 <= rf.sequence[k].clip_index
           /\ rf.sequence[k].clip_index < BaseLength)

\* C7 as stated: when every entry of a provided arrangement sequence is
\* skipped, the render fails with the empty-result error and produces no
\* output.
C7_AsStated ==
  AllEntriesSkipped =>
    /\ rf.pc # "done" /\ ~rf.written
    /\ (rf.pc = "failed" /\ rf.k > Len(rf.sequence))
         => rf.error = EmptyTimelineError

\* The source at position clip_index (from 0) of the base list: the intro
\* first when given, the clips in input order, the outro last when given.
BaseSource(clip_index) ==
  IF rf.has_intro
    THEN IF clip_index = 0 THEN Intro
         ELSE IF clip_index <= rf.n_clips THEN ClipAt(clip_index) ELSE Outro
    ELSE IF clip_index < rf.n_clips THEN ClipAt(clip_index + 1) ELSE Outro

ExpectedBase ==
  [k \in 1..BaseLength |->
     [src |-> BaseSource(k - 1), start |-> 0,
      end |-> SourceDuration(BaseSource(k - 1))]]

\* The entries of the sequence that name a clip of the base list, in
\* sequence order, and the sub-range each asks for.
NamesBaseClip(item) == 0 <= item.clip_index /\ item.clip_index < BaseLength

ValidEntries == SelectSeq(rf.sequence, NamesBaseClip)

SubRange(item) ==
  [src |-> BaseSource(item.clip_index),
   start |-> item.start_time,
   end |-> IF item.end_time \in {None, 0}
             THEN SourceDuration(BaseSource(item.clip_index))
             ELSE item.end_time]

Arranged == rf.pc \in {"concat", "done"} /\ rf.arranged_clips # <<>>

\* C17: when the arranged list is non-empty, the timeline that is joined
\* and written is exactly the sub-ranges of the valid entries, one per
\* entry in sequence order; a base clip no entry names is not in it.
C17_ArrangementReplaces ==
  Arranged =>
    /\ rf.clips = [k \in 1..Len(ValidEntries) |-> SubRange(ValidEntries[k])]
    /\ \A h \in {Intro, Outro} \cup {ClipAt(n) : n \in 1..rf.n_clips} :
         (\E k \in 1..Len(rf.clips) : rf.clips[k].src = h)
           => \E k \in 1..Len(ValidEntries) :
                BaseSource(ValidEntries[k].clip_index) = h
    /\ rf.written => rf.output = rf.clips

\* An arrangement with a skipped entry has been rendered and leaves a
\* clip of the base list out.
C17_Witness ==
  /\ rf.pc = "done" /\ rf.written /\ rf.arranged_clips # <<>>
  /\ Len(ValidEntries) < Len(rf.sequence)
  /\ rf.has_intro
  /\ \A k \in 1..Len(rf.output) : rf.output[k].src # Intro

\* C18: whether or not an arrangement is given, the base list is the intro
\* (when given), the clips in input order, the outro (when given);
\* clip_index counts from 0 in that list; without an arrangement the
\* written timeline is the base list.
C18_BaseList ==
  /\ (rf.pc = "arrange"
        \/ (rf.pc \in {"concat", "done"} /\ rf.arranged_clips = <<>>))
       => rf.clips = ExpectedBase
  /\ rf.pc \in {"arrange", "concat", "done"}
       => /\ Len(rf.arranged_clips) <= Len(ValidEntries)
          /\ \A k \in 1..Len(rf.arranged_clips) :
               rf.arranged_clips[k].src = BaseSource(ValidEntries[k].clip_index)
  /\ (rf.pc = "done" /\ ~rf.has_arrangement) => rf.output = ExpectedBase

\* A render without arrangement, with intro, two clips and outro, is done.
C18_Witness ==
  /\ rf.pc = "done" /\ rf.written /\ ~rf.has_arrangement
  /\ rf.has_intro /\ rf.has_outro /\ rf.n_clips = 2
  /\ Len(rf.output) = 4

\* C24 as stated: while the timeline is joined and written, every source
\* its clips are cut from is still open; in the record of collaborator
\* calls no close comes before the write; and no clip is closed twice.
C24_AsStated ==
  /\ rf.pc = "concat" =>
       \A k \in 1..Len(rf.clips) : rf.clips[k].src \in rf.open
  /\ \A j, k \in 1..Len(rf.log) :
       (j < k /\ rf.log[k][1] = "write") => rf.log[j][1] # "close"
  /\ \A j, k \in 1..Len(rf.log) :
       (j < k /\ rf.log[j][1] = "close") => rf.log[j] # rf.log[k]

\* C25 as stated: a valid entry with an end_time, 0 included, yields the
\* sub-range [start_time, end_time) of the clip it names; only an entry
\* without end_time yields [start_time, end of clip).
C25_AsStated ==
  Arranged =>
    \A k \in 1..Len(rf.clips) :
      /\ rf.clips[k].start = ValidEntries[k].start_time
      /\ rf.clips[k].end =
           IF ValidEntries[k].end_time = None
             THEN SourceDuration(BaseSource(ValidEntries[k].clip_index))
             ELSE ValidEntries[k].end_time

\* ====================================== the video-cutter endpoint (app.py)
\* Two requests in flight.  Each uploads a video and a cut profile under
\* file names its client chooses; the content of an upload is identified
\* by the request it belongs to.
Requests == {"A", "B"}
VideoNames == {"v1.mp4", "v2.mp4"}
ProfileNames == {"p1.json", "p2.json"}
Absent == "absent"

InitSrv ==
  \E vn \in [Requests -> VideoNames], pn \in [Requests -> ProfileNames] :
    srv = [uploads |-> [f \in VideoNames \cup ProfileNames |-> Absent],
           outputs |-> [f \in VideoNames |->
                          [video |-> Absent, profile |-> Absent]],
           req |-> [r \in Requests |->
                      [pc |-> "start", video |-> vn[r], profile |-> pn[r],
                       cut_data |-> Absent, output_file |-> Absent]]]

\* save_upload: file_path = os.path.join(directory, file.filename); the
\* bytes of the upload replace whatever the path held.
SaveUpload(uploads, filename, content) ==
  [uploads EXCEPT ![filename] = content]

\* video_path = await save_upload(video, "uploads")
SaveVideo(r) ==
  /\ srv.req[r].pc = "start"
  /\ srv' = [srv EXCEPT
               !.uploads = SaveUpload(@, srv.req[r].video, r),
               !.req[r].pc = "video_saved"]
  /\ UNCHANGED <<rs, cv, mt, rf, gs>>

\* profile_path = await save_upload(cut_profile, "uploads")
SaveProfile(r) ==
  /\ srv.req[r].pc = "video_saved"
  /\ srv' = [srv EXCEPT
               !.uploads = SaveUpload(@, srv.req[r].profile, r),
               !.req[r].pc = "profile_saved"]
  /\ UNCHANGED <<rs, cv, mt, rf, gs>>

\* The name of the output: "cut_" + the base name of the video path.
OutputName(video_name) == video_name

\* The profile is read back from its path, cut_video_with_profile reads
\* the video from its path and writes the output; nothing is awaited in
\* between, so this is one step.
RunCut(r) ==
  /\ srv.req[r].pc = "profile_saved"
  /\ LET cut_data == srv.uploads[srv.req[r].profile]
         video == srv.uploads[srv.req[r].video]
         out == OutputName(srv.req[r].video)
     IN srv' = [srv EXCEPT
                  !.outputs[out] = [video |-> video, profile |-> cut_data],
                  !.req[r].cut_data = cut_data,
                  !.req[r].output_file = out,
                  !.req[r].pc = "done"]
  /\ UNCHANGED <<rs, cv, mt, rf, gs>>

NextSrv == \E r \in Requests : SaveVideo(r) \/ SaveProfile(r) \/ RunCut(r)

InitServer ==
  InitSrv /\ rs = Idle /\ cv = Idle /\ mt = Idle /\ rf = Idle /\ gs = Idle

SpecServer == InitServer /\ [][NextSrv]_vars

\* ------------------------------------------------ claims: the endpoint
\* C12 as stated: under every interleaving, the output a finished request
\* names was computed from that request's own uploads only and has not
\* been overwritten by the other request, also when both uploads carry
\* the same file name.
C12_AsStated ==
  \A r \in Requests :
    srv.req[r].pc = "done" =>
      srv.outputs[srv.req[r].output_file] = [video |-> r, profile |-> r]

\* ================================================ subtitles (subtitles.py)
\* Texts are sequences of characters.  Caption times are in milliseconds:
\* word_count / 2.5 seconds is 400 * word_count milliseconds.
MaxChars == 6        \* longest enumerated plain-text transcript
MaxItems == 2        \* most entries of a structured transcript

NL == "\n"
Alphabet == {"a", " ", NL}
ScenarioText ==
  <<"h", "e", "l", "l", "o", " ", "w", "o", "r", "l", "d", NL, NL,
    "f", "o", "o", " ", "b", "a", "r", " ", "b", "a", "z">>
FiveWordLine == <<"a", " ", "a", " ", "a", " ", "a", " ", "a">>
PlainTexts ==
  UNION {[1..n -> Alphabet] : n \in 0..MaxChars}
    \cup {ScenarioText, FiveWordLine}

\* Caption times of structured transcripts: 23:59:59.999 and 25:01:01.001.
\* An entry has some of the keys; a field whose key is absent is unused.
TimeSamples == {86399999, 90061001}
ItemKeys == {"start", "end", "text"}
JsonItems ==
  {[keys |-> K,
    start |-> IF "start" \in K THEN st ELSE None,
    end |-> IF "end" \in K THEN en ELSE None,
    text |-> IF "text" \in K THEN <<"x">> ELSE <<"?">>] :
     K \in SUBSET ItemKeys, st \in TimeSamples, en \in TimeSamples}
JsonLists == UNION {[1..n -> JsonItems] : n \in 0..MaxItems}

\* The content of the transcript file: text that is not JSON, a JSON
\* record with a "segments" list, with a "transcript" list or with
\* neither, or a JSON number.
Transcripts ==
  {[kind |-> "plain", text |-> t, key |-> "none", items |-> <<>>] :
     t \in PlainTexts}
  \cup {[kind |-> "record", text |-> <<>>, key |-> k, items |-> q] :
          k \in {"segments", "transcript"}, q \in JsonLists}
  \cup {[kind |-> "record", text |-> <<>>, key |-> "neither", items |-> <<>>],
        [kind |-> "number", text |-> <<"7">>, key |-> "none", items |-> <<>>]}

FontStyles == {"default", "bold", "italic", "modern", "comic"}
Formats == {<<"s", "r", "t">>, <<"V", "T", "T">>, <<"a", "s", "s">>}

InitGS ==
  \E tr \in Transcripts, fs \in FontStyles, fmt \in Formats :
    gs = [pc |-> "start", transcript |-> tr, font_style |-> fs,
          format |-> fmt, read |-> FALSE, lines |-> <<>>, i |-> 1,
          current_time |-> 0, heap |-> <<>>, subtitles |-> <<>>,
          styled_subtitles |-> <<>>, input |-> <<>>,
          file |-> [kind |-> "absent", cues |-> <<>>], error |-> NoError]

\* ------------------------------------------------------ string methods
IsSpace(c) == c \in {" ", NL}

\* str.strip()
Strip(s) ==
  LET ix == {k \in 1..Len(s) : ~IsSpace(s[k])}
  IN IF ix = {} THEN <<>>
     ELSE SubSeq(s, CHOOSE k \in ix : \A j \in ix : k <= j,
                    CHOOSE k \in ix : \A j \in ix : j <= k)

\* s.find(sep): the first position where sep occurs, 0 when it does not.
Find(s, sep) ==
  LET at == {k \in 1..(Len(s) - Len(sep) + 1) :
               SubSeq(s, k, k + Len(sep) - 1) = sep}
  IN IF at = {} THEN 0 ELSE CHOOSE k \in at : \A j \in at : k <= j

\* s.split(sep)
RECURSIVE Split(_, _)
Split(s, sep) ==
  LET k == Find(s, sep)
  IN IF k = 0 THEN <<s>>
     ELSE <<SubSeq(s, 1, k - 1)>> \o Split(SubSeq(s, k + Len(sep), Len(s)), sep)

\* s.split(): the maximal runs of non-whitespace characters.
RECURSIVE Words(_)
Words(s) ==
  LET ix == {k \in 1..Len(s) : ~IsSpace(s[k])}
  IN IF ix = {} THEN <<>>
     ELSE LET b == CHOOSE k \in ix : \A j \in ix : k <= j
              sp == {k \in b..Len(s) : IsSpace(s[k])}
              e == IF sp = {} THEN Len(s) + 1
                   ELSE CHOOSE k \in sp : \A j \in sp : k <= j
          IN <<SubSeq(s, b, e - 1)>> \o Words(SubSeq(s, e, Len(s)))

\* ------------------------------------------- process_plain_text_transcript
\* Blocks separated by blank lines, or lines when there is one block.
SplitBlocksOnly(transcript_text) == Split(Strip(transcript_text), <<NL, NL>>)

SplitLines(transcript_text) ==
  LET lines == Split(Strip(transcript_text), <<NL, NL>>)
  IN IF Len(lines) <= 1 THEN Split(Strip(transcript_text), <<NL>>) ELSE lines

\* duration = max(word_count / words_per_second, 1.0), in milliseconds
DurationNoFloor(word_count) == (word_count * 2000) \div 5

Duration(word_count) == Max((word_count * 2000) \div 5, 1000)

\* with open(transcript_path, 'r') as f: transcript_data = f.read()
ReadTranscript ==
  /\ gs.pc = "start"
  /\ gs' = [gs EXCEPT !.pc = "read", !.read = TRUE]
  /\ UNCHANGED <<rs, cv, mt, rf, srv>>

ReadTranscriptFails ==
  /\ gs.pc = "start"
  /\ gs' = [gs EXCEPT !.pc = "failed", !.error = CollaboratorError]
  /\ UNCHANGED <<rs, cv, mt, rf, srv>>

\* json.loads raises JSONDecodeError: the text is split, and the loop
\* over the lines starts with current_time = 0.
ParsePlain ==
  /\ gs.pc = "read"
  /\ gs.transcript.kind = "plain"
  /\ gs' = [gs EXCEPT !.pc = "timing",
                      !.lines = SplitLines(gs.transcript.text),
                      !.i = 1, !.current_time = 0]
  /\ UNCHANGED <<rs, cv, mt, rf, srv>>

\* One iteration of "for line in lines"; the loop ends after the last.
TimeLine ==
  /\ gs.pc = "timing"
  /\ gs.i <= Len(gs.lines)
  /\ LET line == Strip(gs.lines[gs.i])
         duration == Duration(Len(Words(line)))
         after == IF gs.i = Len(gs.lines) THEN "timed" ELSE "timing"
     IN IF line = <<>>
        THEN gs' = [gs EXCEPT !.i = @ + 1, !.pc = after]
        ELSE gs' = [gs EXCEPT
                      !.i = @ + 1, !.pc = after,
                      !.heap = Append(@, [start_time |-> gs.current_time,
                                          end_time |-> gs.current_time + duration,
                                          text |-> line]),
                      !.subtitles = Append(@, Len(gs.heap) + 1),
                      !.current_time = @ + duration]
  /\ UNCHANGED <<rs, cv, mt, rf, srv>>

\* ------------------------------------------- process_structured_transcript
\* dict.get(key, default)
Get(item, key, default) == IF key \in item.keys THEN item[key] ELSE default

Caption(item) ==
  [start_time |-> Get(item, "start", 0),
   end_time |-> Get(item, "end", 0),
   text |-> Get(item, "text", <<>>)]

\* json.loads succeeds with a record: one caption per entry of the list
\* found, none when neither key is present.
ParseStructured ==
  /\ gs.pc = "read"
  /\ gs.transcript.kind = "record"
  /\ LET items == IF gs.transcript.key = "neither" THEN <<>>
                  ELSE gs.transcript.items
     IN gs' = [gs EXCEPT
                 !.pc = "timed",
                 !.heap = [k \in 1..Len(items) |-> Caption(items[k])],
                 !.subtitles = [k \in 1..Len(items) |-> k]]
  /\ UNCHANGED <<rs, cv, mt, rf, srv>>

\* json.loads succeeds with a number: "segments" in transcript_json raises
\* TypeError.
ParseNumber ==
  /\ gs.pc = "read"
  /\ gs.transcript.kind = "number"
  /\ gs' = [gs EXCEPT !.pc = "failed", !.error = UnhandledError]
  /\ UNCHANGED <<rs, cv, mt, rf, srv>>

\* ------------------------------------------------------- apply_font_style
StyleText(font_style, text) ==
  CASE font_style = "bold" -> <<"<b>">> \o text \o <<"</b>">>
    [] font_style = "italic" -> <<"<i>">> \o text \o <<"</i>">>
    [] font_style = "modern" ->
         <<"<font color=\"#FFFFFF\" face=\"Arial\">">> \o text \o <<"</font>">>
    [] OTHER -> text

\* The captions a list of references denotes.
Deref(heap, refs) == [k \in 1..Len(refs) |-> heap[refs[k]]]

\* styled_subtitles = subtitles.copy() is a new list of the same caption
\* objects; subtitle["text"] = ... assigns to those objects.  input keeps
\* the value the argument had when the function was called.
ApplyFontStyle ==
  /\ gs.pc = "timed"
  /\ LET styled_subtitles == gs.subtitles
         styled == {styled_subtitles[k] : k \in 1..Len(styled_subtitles)}
     IN gs' = [gs EXCEPT
                 !.pc = "styled",
                 !.input = Deref(gs.heap, gs.subtitles),
                 !.styled_subtitles = styled_subtitles,
                 !.heap = [k \in 1..Len(gs.heap) |->
                             IF k \in styled
                             THEN [gs.heap[k] EXCEPT
                                     !.text = StyleText(gs.font_style, @)]
                             ELSE gs.heap[k]]]
  /\ UNCHANGED <<rs, cv, mt, rf, srv>>

\* ------------------------------------------ format_time, format_time_vtt
Digit(d) == <<"0", "1", "2", "3", "4", "5", "6", "7", "8", "9">>[d + 1]

RECURSIVE Digits(_)
Digits(n) == IF n < 10 THEN <<Digit(n)>> ELSE Digits(n \div 10) \o <<Digit(n % 10)>>

\* f"{n:0w}": at least w digits, zero-filled on the left.
RECURSIVE ZeroFill(_, _)
ZeroFill(q, width) == IF Len(q) >= width THEN q ELSE ZeroFill(<<"0">> \o q, width)

\* timedelta(seconds=...) normalises to days, seconds (0..86399) and
\* microseconds; the days are not used.
FormatWith(ms_total, sep) ==
  LET td_days == ms_total \div 86400000
      td_seconds == (ms_total % 86400000) \div 1000
      hours == td_seconds \div 3600
      remainder == td_seconds % 3600
      minutes == remainder \div 60
      seconds == remainder % 60
      milliseconds == ms_total % 1000
  IN ZeroFill(Digits(hours), 2) \o <<":">> \o ZeroFill(Digits(minutes), 2)
       \o <<":">> \o ZeroFill(Digits(seconds), 2) \o <<sep>>
       \o ZeroFill(Digits(milliseconds), 3)

format_time(seconds) == FormatWith(seconds, ",")

format_time_vtt(seconds) == FormatWith(seconds, ".")

\* ------------------------------------------------- write_srt, write_vtt
write_srt(subtitles) ==
  [k \in 1..Len(subtitles) |->
     [index |-> k,
      start_formatted |-> format_time(subtitles[k].start_time),
      end_formatted |-> format_time(subtitles[k].end_time),
      text |-> subtitles[k].text]]

write_vtt(subtitles) ==
  [k \in 1..Len(subtitles) |->
     [index |-> k,
      start_formatted |-> format_time_vtt(subtitles[k].start_time),
      end_formatted |-> format_time_vtt(subtitles[k].end_time),
      text |-> subtitles[k].text]]

\* file_extension = format.lower()
LowerChar(c) ==
  CASE c = "V" -> "v" [] c = "T" -> "t" [] c = "S" -> "s" [] c = "R" -> "r"
    [] OTHER -> c

Lower(str) == [k \in 1..Len(str) |-> LowerChar(str[k])]

file_extension == Lower(gs.format)

WriteSrt ==
  /\ gs.pc = "styled"
  /\ file_extension = <<"s", "r", "t">>
  /\ gs' = [gs EXCEPT
               !.pc = "done",
               !.file = [kind |-> "srt",
                         cues |-> write_srt(Deref(gs.heap,
                                                  gs.styled_subtitles))]]
  /\ UNCHANGED <<rs, cv, mt, rf, srv>>

WriteVtt ==
  /\ gs.pc = "styled"
  /\ file_extension = <<"v", "t", "t">>
  /\ gs' = [gs EXCEPT
               !.pc = "done",
               !.file = [kind |-> "vtt",
                         cues |-> write_vtt(Deref(gs.heap,
                                                  gs.styled_subtitles))]]
  /\ UNCHANGED <<rs, cv, mt, rf, srv>>

\* open(output_path, 'w') or a write raises.
WriteSubtitlesFails ==
  /\ gs.pc = "styled"
  /\ file_extension \in {<<"s", "r", "t">>, <<"v", "t", "t">>}
  /\ gs' = [gs EXCEPT !.pc = "failed", !.error = CollaboratorError]
  /\ UNCHANGED <<rs, cv, mt, rf, srv>>

\* raise ValueError(f"Unsupported subtitle format: {format}")
ValueError == "ValueError"

UnsupportedFormat ==
  /\ gs.pc = "styled"
  /\ file_extension \notin {<<"s", "r", "t">>, <<"v", "t", "t">>}
  /\ gs' = [gs EXCEPT !.pc = "failed", !.error = ValueError]
  /\ UNCHANGED <<rs, cv, mt, rf, srv>>

NextGS ==
  \/ ReadTranscript
  \/ ReadTranscriptFails
  \/ ParsePlain
  \/ TimeLine
  \/ ParseStructured
  \/ ParseNumber
  \/ ApplyFontStyle
  \/ WriteSrt
  \/ WriteVtt
  \/ WriteSubtitlesFails
  \/ UnsupportedFormat

InitSubtitles ==
  InitGS /\ rs = Idle /\ cv = Idle /\ mt = Idle /\ rf = Idle /\ srv = Idle

SpecSubtitles == InitSubtitles /\ [][NextGS]_vars

\* ----------------------------------------------- claims: plain-text timing
\* The captions the call has produced, and the state in which the
\* plain-text timing loop is running or has just returned.
Captions == Deref(gs.heap, gs.subtitles)

PlainTiming == gs.transcript.kind = "plain" /\ gs.pc \in {"timing", "timed"}

PlainTimed == gs.transcript.kind = "plain" /\ gs.pc = "timed"

\* The number of words of a line: the positions where a word begins.
WordStarts(line) ==
  Cardinality({k \in 1..Len(line) :
                 ~IsSpace(line[k]) /\ (k = 1 \/ IsSpace(line[k - 1]))})

NonEmptyLine(line) == line # <<>>

\* The lines the loop has gone through so far, stripped, empty ones left out.
LinesSoFar ==
  SelectSeq([k \in 1..(gs.i - 1) |-> Strip(gs.lines[k])], NonEmptyLine)

\* C13: the i-th non-empty line yields the i-th caption; its duration is
\* max(word_count / 2.5, 1.0) seconds, its start is the end of the caption
\* before it (0 for the first) and its end is start + duration, so no
\* caption is shorter than 1 second; 5 words give 2.0s and 1 word gives 1.0s.
C13_PlainTextTiming ==
  PlainTiming =>
    /\ Len(Captions) = Len(LinesSoFar)
    /\ \A k \in 1..Len(Captions) :
         LET c == Captions[k]
             word_count == WordStarts(LinesSoFar[k])
             d == c.end_time - c.start_time
         IN /\ c.text = LinesSoFar[k]
            /\ c.start_time = IF k = 1 THEN 0 ELSE Captions[k - 1].end_time
            /\ d = IF 2 * word_count >= 5 THEN 400 * word_count ELSE 1000
            /\ d >= 1000
            /\ word_count = 5 => d = 2000
            /\ word_count = 1 => d = 1000
    /\ gs.current_time =
         IF Captions = <<>> THEN 0 ELSE Captions[Len(Captions)].end_time

\* The loop has returned two or more captions, one held at the 1-second
\* floor and one longer than it.
C13_Witness ==
  /\ PlainTimed
  /\ Len(Captions) >= 2
  /\ \E j, k \in 1..Len(Captions) :
       /\ WordStarts(Captions[j].text) = 2
       /\ Captions[j].end_time - Captions[j].start_time = 1000
       /\ Captions[k].end_time - Captions[k].start_time = 1200

\* The stripped transcript, the positions of its non-blank characters and
\* whether it has a blank-line boundary.
Stripped == Strip(gs.transcript.text)

Inked == {k \in 1..Len(Stripped) : ~IsSpace(Stripped[k])}

HasBlankLine ==
  \E m \in 1..(Len(Stripped) - 1) : Stripped[m] = NL /\ Stripped[m + 1] = NL

\* Two non-blank characters with only whitespace between them are in
\* different pieces when that whitespace holds a boundary: a blank line
\* if the transcript has any, a newline otherwise.
Separated(k, j) ==
  IF HasBlankLine
  THEN \E m \in (k + 1)..(j - 2) : Stripped[m] = NL /\ Stripped[m + 1] = NL
  ELSE \E m \in (k + 1)..(j - 1) : Stripped[m] = NL

PieceStarts ==
  {j \in Inked :
     \A k \in Inked : (k < j /\ \A m \in Inked : ~(k < m /\ m < j))
                         => Separated(k, j)}

PieceEnds ==
  {k \in Inked :
     \A j \in Inked : (k < j /\ \A m \in Inked : ~(k < m /\ m < j))
                         => Separated(k, j)}

Kth(S, k) == CHOOSE x \in S : Cardinality({y \in S : y < x}) = k - 1

ExpectedPieces ==
  [k \in 1..Cardinality(PieceStarts) |->
     SubSeq(Stripped, Kth(PieceStarts, k), Kth(PieceEnds, k))]

ScenarioCaptions ==
  <<[start_time |-> 0, end_time |-> 1000,
     text |-> <<"h", "e", "l", "l", "o", " ", "w", "o", "r", "l", "d">>],
    [start_time |-> 1000, end_time |-> 2200,
     text |-> <<"f", "o", "o", " ", "b", "a", "r", " ", "b", "a", "z">>]>>

\* C14: the captions are the non-empty pieces of the transcript, cut at
\* its blank lines when it has one and at its newlines otherwise, in
\* order; "hello world", blank line, "foo bar baz" gives the two captions
\* [0.0, 1.0, "hello world"] and [1.0, 2.2, "foo bar baz"].
C14_Splitting ==
  PlainTimed =>
    /\ [k \in 1..Len(Captions) |-> Captions[k].text] = ExpectedPieces
    /\ gs.transcript.text = ScenarioText => Captions = ScenarioCaptions

C14_Witness ==
  /\ PlainTimed
  /\ gs.transcript.text = ScenarioText
  /\ HasBlankLine
  /\ Len(Captions) = 2

\* --------------------------------------------------- claims: serializing
\* Reading a timestamp HH:MM:SS,mmm back: the number of milliseconds.
DigitValue(c) == CHOOSE d \in 0..9 : Digit(d) = c

RECURSIVE Number(_)
Number(q) ==
  IF q = <<>> THEN 0
  ELSE 10 * Number(SubSeq(q, 1, Len(q) - 1)) + DigitValue(q[Len(q)])

ParseTimestamp(str) ==
  LET fields == Split(str, <<":">>)
      tail == Split(fields[3], <<",">>)
  IN ((Number(fields[1]) * 60 + Number(fields[2])) * 60 + Number(tail[1])) * 1000
       + Number(tail[2])

SrtWritten == gs.pc = "done" /\ gs.file.kind = "srt"

\* C15 as stated: every timestamp of a written SRT file, read back, is
\* the start or end time of its caption to the millisecond, also for
\* times of 24 hours or more.
C15_AsStated ==
  SrtWritten =>
    \A k \in 1..Len(gs.file.cues) :
      /\ ParseTimestamp(gs.file.cues[k].start_formatted) = Captions[k].start_time
      /\ ParseTimestamp(gs.file.cues[k].end_formatted) = Captions[k].end_time

\* C16 as stated: when the call ends with the unsupported-format error,
\* the transcript has not been read, no caption has been parsed or timed
\* and no output file has been written.
C16_AsStated ==
  gs.error = ValueError =>
    /\ ~gs.read
    /\ gs.heap = <<>>
    /\ gs.file.kind = "absent"

\* ------------------------------------------------------- claims: styling
Styled == gs.pc \in {"styled", "done"}

\* C19 as stated: after apply_font_style, for every style keyword, each
\* caption of the list passed in still has the text, start_time and
\* end_time it had when the function was called.
C19_AsStated == Styled => Captions = gs.input

\* ------------------------------------------- claims: dispatch and results
\* No caption can come of the transcript: a plain text of whitespace
\* only, or a record with an empty list or with neither key.
NoCaptionSurvives ==
  \/ gs.transcript.kind = "plain" /\ Strip(gs.transcript.text) = <<>>
  \/ gs.transcript.kind = "record"
       /\ (gs.transcript.key = "neither" \/ gs.transcript.items = <<>>)

\* C27 as stated: when no caption survives, the call fails: it does not
\* return a result and it writes no subtitle file.
C27_AsStated ==
  NoCaptionSurvives =>
    /\ gs.pc # "done"
    /\ gs.file.kind = "absent"

\* The caption the claim gives for an entry of a structured transcript.
ExpectedCaption(item) ==
  [start_time |-> IF "start" \in item.keys THEN item.start ELSE 0,
   end_time |-> IF "end" \in item.keys THEN item.end ELSE 0,
   text |-> IF "text" \in item.keys THEN item.text ELSE <<>>]

\* C28 as stated: an input that is not a structured record is timed as
\* plain text, whatever it is; a structured record gives one caption per
\* entry of its list, in input order, with 0 for a missing time and the
\* empty string for a missing text.
C28_AsStated ==
  /\ gs.transcript.kind # "record" =>
       /\ gs.pc = "failed" => gs.error # UnhandledError
       /\ gs.pc = "timed" =>
            [k \in 1..Len(Captions) |-> Captions[k].text] = ExpectedPieces
  /\ (gs.transcript.kind = "record" /\ gs.pc = "timed") =>
       Captions =
         IF gs.transcript.key = "neither" THEN <<>>
         ELSE [k \in 1..Len(gs.transcript.items) |->
                 ExpectedCaption(gs.transcript.items[k])]

====
